---------------------------- MODULE Spec2Model ----------------------------
(***************************************************************************)
(* Model of the diagnostic renderer of src/error: CompilationMessage,      *)
(* its Display implementation (header, body, snippet, marker), the error   *)
(* body templates, the styling policy and the OS-agnostic path formatter.  *)
(*                                                                         *)
(* Text is modelled the way the formatting machinery produces it: a        *)
(* formatter buffer is a sequence of writes (one per write!/writeln!       *)
(* call), a write is a sequence of pieces, and a piece is a text with the  *)
(* style it was wrapped in.  A source line is a sequence of one-byte       *)
(* strings so that it can be sliced by byte offsets.                       *)
(***************************************************************************)
EXTENDS Integers, Sequences, FiniteSets, TLC

VARIABLES
    fs,           \* what reading the source file yields: <<>> or <<contents>>
    message,      \* the constructed CompilationMessage: <<>> or <<m>>
    new_args,     \* the arguments CompilationMessage::new was called with
    status,       \* outcome of the last render: idle, completed or a panic
    out,          \* what the last render wrote to the formatter
    env,          \* inputs of the last render: styling and build
    locals,       \* locals of the last render: line and the column range
    err,          \* the CompilationError handed to DisplayableError: <<>> or <<e>>
    body,         \* what DisplayableError::fmt wrote
    body_styling, \* the styling DisplayableError::fmt was given: <<>> or <<s>>
    path,         \* the path handed to OsAgnosticPath
    path_out      \* what OsAgnosticPath::fmt wrote: <<>> or <<text>>

vars == <<fs, message, new_args, status, out, env, locals,
          err, body, body_styling, path, path_out>>

renderVars == <<fs, message, new_args, status, out, env, locals>>
errorVars == <<err, body, body_styling>>
pathVars == <<path, path_out>>

----------------------------------------------------------------------------
(* Bounds of the model. *)

\* longest enumerated source file, in bytes
MaxFileLen == 3
\* largest start.line of a location
MaxLine == 2
\* largest start.column of a location
MaxColumn == 4
\* largest span length of a location
MaxLength == 2
\* largest parameter count of an InvalidNumberOfParameters error
MaxCount == 5
\* most components after the leading ones of a path
MaxTail == 3
\* number of values of the machine word (usize), scaled down to what TLC's
\* integers can hold; the arithmetic below wraps modulo this number
UsizeModulus == 65536

----------------------------------------------------------------------------
(* Text helpers. *)

min(a, b) == IF a <= b THEN a ELSE b

\* a piece of formatter output: a text and the style wrapped around it
Piece(style, text) == [style |-> style, text |-> text]
Plain(text) == Piece("", text)
NL == Plain("\n")

\* the string made of the one-byte strings of a sequence
RECURSIVE Str(_)
Str(bytes) == IF bytes = <<>> THEN "" ELSE Head(bytes) \o Str(Tail(bytes))

\* str::repeat
RECURSIVE repeat(_, _)
repeat(s, n) == IF n <= 0 THEN "" ELSE s \o repeat(s, n - 1)

\* the text of a sequence of pieces, styles dropped
RECURSIVE Flatten(_)
Flatten(pieces) ==
    IF pieces = <<>> THEN "" ELSE Head(pieces).text \o Flatten(Tail(pieces))

\* the number of newline pieces of a write
RECURSIVE Newlines(_)
Newlines(pieces) ==
    IF pieces = <<>> THEN 0
    ELSE (IF Head(pieces) = NL THEN 1 ELSE 0) + Newlines(Tail(pieces))

\* all sequences over S of length at most n
RECURSIVE SeqsUpTo(_, _)
SeqsUpTo(S, n) ==
    IF n = 0 THEN {<<>>}
    ELSE LET shorter == SeqsUpTo(S, n - 1)
         IN  shorter \cup {Append(s, x) : s \in shorter, x \in S}

----------------------------------------------------------------------------
(* Path formatter: impl fmt::Display for OsAgnosticPath. *)

RootDir == [kind |-> "RootDir", name |-> ""]
CurDir == [kind |-> "CurDir", name |-> ""]
ParentDir == [kind |-> "ParentDir", name |-> ""]
Prefix == [kind |-> "Prefix", name |-> "C:"]
Normal(s) == [kind |-> "Normal", name |-> s]

\* what one component writes (the match of the loop body)
ComponentText(component) ==
    CASE component.kind = "CurDir" -> "."
      [] component.kind = "Normal" -> component.name
      [] component.kind = "ParentDir" -> ".."
      [] component.kind = "Prefix" -> ""
      [] component.kind = "RootDir" -> "/"

\* display_separator after a component has been written
SeparatorAfter(component) == component /= RootDir

\* the loop over self.0.components(), display_separator carried along
RECURSIVE PathLoop(_, _)
PathLoop(components, display_separator) ==
    IF components = <<>> THEN ""
    ELSE LET component == Head(components)
         IN  (IF display_separator THEN "/" ELSE "")
                 \o ComponentText(component)
                 \o PathLoop(Tail(components), SeparatorAfter(component))

OsAgnosticPath_fmt(components) == PathLoop(components, FALSE)

\* The component sequences Path::components() can yield: an optional prefix,
\* an optional root, a leading "." only when there is neither, then normal
\* and ".." components.
PathNames == {"a", "b"}
PathHeads == {<<>>, <<RootDir>>, <<CurDir>>, <<Prefix>>, <<Prefix, RootDir>>}
PathTails == SeqsUpTo({Normal(n) : n \in PathNames} \cup {ParentDir}, MaxTail)
Paths == {h \o t : h \in PathHeads, t \in PathTails}

FormatPath ==
    /\ path_out = <<>>
    /\ path_out' = <<OsAgnosticPath_fmt(path)>>
    /\ UNCHANGED <<path, renderVars, errorVars>>

----------------------------------------------------------------------------
(* Styling policy: Styling::no_color and Styling::colored. *)

no_color ==
    [location |-> "", header_error |-> "", header_warning |-> "",
     header_note |-> "", type_ |-> "", wrong_type |-> "", trait_ |-> "",
     line_wrong_part |-> "", underline |-> TRUE]

colored ==
    [location |-> "italic", header_error |-> "red+bold",
     header_warning |-> "yellow+bold", header_note |-> "purple+bold",
     type_ |-> "green", wrong_type |-> "red", trait_ |-> "blue",
     line_wrong_part |-> "red", underline |-> FALSE]

Stylings == {no_color, colored}

----------------------------------------------------------------------------
(* Types and their names: the external type-naming service, Type::display. *)

PrimTypes == {[name |-> "Int"], [name |-> "Bool"]}
FunctionTypes == {[param |-> [name |-> "Int"], ret |-> [name |-> "Bool"]]}

display(type) == type.name
display_function(function) ==
    "(" \o display(function.param) \o " -> " \o display(function.ret) \o ")"

Counts == 0 .. MaxCount

----------------------------------------------------------------------------
(* CompilationError and impl fmt::Display for DisplayableError. *)

mismatched_parameters(expected, got) ==
    [kind |-> "MismatchedParameters", expected |-> expected, got |-> got]
ref_required_for_assignment(got) ==
    [kind |-> "RefRequiredForAssignment", got |-> got]
cannot_assign_to_ref(expected, got) ==
    [kind |-> "CannotAssignToRef", expected |-> expected, got |-> got]
value_is_not_a_function(got) ==
    [kind |-> "ValueIsNotAFunction", got |-> got]
InvalidNumberOfParameters(function, got, expected) ==
    [kind |-> "InvalidNumberOfParameters", function |-> function,
     got |-> got, expected |-> expected]

CompilationErrors ==
    {mismatched_parameters(e, g) : e \in PrimTypes, g \in PrimTypes}
        \cup {ref_required_for_assignment(g) : g \in PrimTypes}
        \cup {cannot_assign_to_ref(e, g) : e \in PrimTypes, g \in PrimTypes}
        \cup {value_is_not_a_function(g) : g \in PrimTypes}
        \cup {InvalidNumberOfParameters(f, g, e) :
                f \in FunctionTypes, g \in Counts, e \in Counts}

\* The backquote character of the source's string literals, written as an
\* apostrophe: a string of this notation cannot hold a backquote.
BQ == "'"

\* the arms of the match, each the pieces its writeln! writes
FmtMismatchedParameters(error, styling) ==
    <<Plain("Mismatched parameters: expected "),
      Piece(styling.type_, display(error.expected)),
      Plain(", got "),
      Piece(styling.wrong_type, display(error.got)),
      NL>>

FmtRefRequiredForAssignment(error, styling) ==
    <<Plain("Expression of type "),
      Piece(styling.wrong_type, display(error.got)),
      Plain(" must be a " \o BQ \o "ref a" \o BQ \o " type to be assigned to"),
      NL>>

\* the two types exchanged
FmtCannotAssignToRefSwapped(error, styling) ==
    <<Plain("Cannot assign expression of type "),
      Piece(styling.wrong_type, display(error.expected)),
      Plain(" to a ref of type "),
      Piece(styling.type_, display(error.got)),
      NL>>

FmtCannotAssignToRef(error, styling) ==
    <<Plain("Cannot assign expression of type "),
      Piece(styling.wrong_type, display(error.got)),
      Plain(" to a ref of type "),
      Piece(styling.type_, display(error.expected)),
      NL>>

FmtValueIsNotAFunction(error, styling) ==
    <<Plain("Value being called is not a function, it is a "),
      Piece(styling.wrong_type, display(error.got)),
      NL>>

\* the grammatical rule: singular for exactly one
PluralSuffixGrammatical(expected) == IF expected = 1 THEN "" ELSE "s"

\* if *expected < 2 { "" } else { "s" }
PluralSuffix(expected) == IF expected < 2 THEN "" ELSE "s"

FmtInvalidNumberOfParameters(error, styling) ==
    <<Plain("Function "),
      Piece(styling.wrong_type, display_function(error.function)),
      Plain(" declared to take "),
      Piece(styling.type_, ToString(error.expected)),
      Plain(" parameter"),
      Plain(PluralSuffix(error.expected)),
      Plain(", but "),
      Piece(styling.wrong_type, ToString(error.got)),
      Plain(" were supplied"),
      NL>>

DisplayableError_fmt(error, styling) ==
    CASE error.kind = "MismatchedParameters" ->
            FmtMismatchedParameters(error, styling)
      [] error.kind = "RefRequiredForAssignment" ->
            FmtRefRequiredForAssignment(error, styling)
      [] error.kind = "CannotAssignToRef" ->
            FmtCannotAssignToRef(error, styling)
      [] error.kind = "ValueIsNotAFunction" ->
            FmtValueIsNotAFunction(error, styling)
      [] error.kind = "InvalidNumberOfParameters" ->
            FmtInvalidNumberOfParameters(error, styling)

\* write!(f, "{}", error.display(cache, styling)) on an empty formatter
DisplayError(styling) ==
    /\ body_styling = <<>>
    /\ body' = DisplayableError_fmt(err[1], styling)
    /\ body_styling' = <<styling>>
    /\ UNCHANGED <<err, renderVars, pathVars>>

----------------------------------------------------------------------------
(* Warnings and notes: the placeholder kind and its Display.  A Display   *)
(* result is the pieces written and whether the call panicked at todo!(). *)

Todo == [kind |-> "Todo"]

Written(pieces) == [panic |-> FALSE, pieces |-> pieces]
TodoPanic == [panic |-> TRUE, pieces |-> <<>>]

\* a Display that writes nothing instead of panicking
DisplayableWarningBlank(warning, styling) == Written(<<>>)

DisplayableWarning_fmt(warning, styling) == TodoPanic
DisplayableNote_fmt(note, styling) == TodoPanic

----------------------------------------------------------------------------
(* Locations, message construction, is_error. *)

Location(filename, line, column, len) ==
    [filename |-> filename,
     start |-> [line |-> line, column |-> column],
     len |-> len]

length(location) == location.len

as_owned(location) ==
    [filename |-> location.filename,
     start |-> location.start,
     len |-> location.len]

Error(error) == [tag |-> "Error", payload |-> error]
Warning(warning) == [tag |-> "Warning", payload |-> warning]
Note(note) == [tag |-> "Note", payload |-> note]

new(location, msg) == [location |-> as_owned(location), message |-> msg]

\* matches everything but a note
is_error_not_note(self) == self.message.tag /= "Note"

is_error(self) == self.message.tag = "Error"

\* impl fmt::Display for OwnedLocation: "{}:{}:{}"
OwnedLocation_fmt(location) ==
    OsAgnosticPath_fmt(location.filename) \o ":"
        \o ToString(location.start.line) \o ":"
        \o ToString(location.start.column)

----------------------------------------------------------------------------
(* The renderer: impl fmt::Display for DisplayableMessage. *)

\* str::lines(): the lines of the contents, split at "\n"; a final line
\* without a newline counts, an empty remainder after the last newline
\* does not.
RECURSIVE LinesFrom(_, _)
LinesFrom(contents, current) ==
    IF contents = <<>>
    THEN IF current = <<>> THEN <<>> ELSE <<current>>
    ELSE IF Head(contents) = "\n"
         THEN <<current>> \o LinesFrom(Tail(contents), <<>>)
         ELSE LinesFrom(Tail(contents), Append(current, Head(contents)))

lines(contents) == LinesFrom(contents, <<>>)

\* Iterator::nth(n).unwrap_or("")
nth_or_empty(ls, n) == IF n + 1 <= Len(ls) THEN ls[n + 1] ELSE <<>>

saturating_sub(a, b) == IF a > b THEN a - b ELSE 0

\* the byte slice &line[a..b]; SliceOk tells whether it panics
SliceOk(line, a, b) == a <= b /\ b <= Len(line)
Slice(line, a, b) == SubSeq(line, a + 1, b)

\* format "{:>width$}": right-justify in a field of at least width
PadLeft(s, width) ==
    IF Len(s) >= width THEN s ELSE repeat(" ", width - Len(s)) \o s

\* the header writeln!
HeaderWrite(location, msg, styling) ==
    <<Piece(styling.location, OwnedLocation_fmt(location)),
      Plain(" | "),
      Piece(styling.header_error, "error:"),
      Plain(" "),
      NL>>

\* the match on the message: the Display of the payload
PayloadDisplay(msg, styling) ==
    CASE msg.tag = "Error" -> Written(DisplayableError_fmt(msg.payload, styling))
      [] msg.tag = "Warning" -> DisplayableWarning_fmt(msg.payload, styling)
      [] msg.tag = "Note" -> DisplayableNote_fmt(msg.payload, styling)

\* writeln!(f, "{}", payload.display(cache, styling))
BodyWrite(pieces) == pieces \o <<NL>>

\* the snippet writeln!
SnippetWrite(line, start_column, end_column, styling) ==
    <<Plain(Str(Slice(line, 0, start_column))),
      Piece(styling.line_wrong_part, Str(Slice(line, start_column, end_column))),
      Plain(Str(Slice(line, end_column, Len(line)))),
      NL>>

\* the empty-range case dropped
MarkerNeededUnderlineOnly(styling, location_len) == styling.underline

\* if styling.underline || location_len == 0
MarkerNeeded(styling, location_len) == styling.underline \/ location_len = 0

\* the marker writeln!
MarkerWrite(location_len, end_column) ==
    <<Plain(PadLeft(repeat("^", location_len), end_column)), NL>>

Locals(line, range) == [line |-> line, range |-> range]
Outcome(st, o, l) == [status |-> st, out |-> o, locals |-> l]

\* fmt, from the columns on: the line has been selected and the subtraction
\* line.len() - start_column has produced `remaining`
FmtFrom(self, styling, line, start_column, remaining, overflow_checks) ==
    LET location_len == min(length(self.location), remaining)
        sum == start_column + location_len
        end_column == sum % UsizeModulus
        l == <<Locals(line, <<start_column, location_len, end_column>>)>>
        header == HeaderWrite(self.location, self.message, styling)
        shown == PayloadDisplay(self.message, styling)
        bodyw == BodyWrite(shown.pieces)
    IN  IF sum >= UsizeModulus /\ overflow_checks
        THEN Outcome("panic_overflow", <<>>, <<Locals(line, <<>>)>>)
        ELSE IF shown.panic
        THEN Outcome("panic_todo", <<header>>, l)
        ELSE IF ~ (/\ SliceOk(line, 0, start_column)
                   /\ SliceOk(line, start_column, end_column)
                   /\ SliceOk(line, end_column, Len(line)))
        THEN Outcome("panic_slice", <<header, bodyw>>, l)
        ELSE LET snippet == SnippetWrite(line, start_column, end_column, styling)
             IN  IF MarkerNeeded(styling, location_len)
                 THEN Outcome("completed",
                              <<header, bodyw, snippet,
                                MarkerWrite(location_len, end_column)>>, l)
                 ELSE Outcome("completed", <<header, bodyw, snippet>>, l)

\* fmt.  `file` is what read_file_or_panic meets: <<>> when the file cannot
\* be opened or read, <<contents>> otherwise.  `overflow_checks` is the
\* build: with them an arithmetic overflow panics, without them it wraps.
DisplayableMessage_fmt(self, styling, file, overflow_checks) ==
    IF file = <<>>
    THEN Outcome("panic_io", <<>>, <<>>)
    ELSE LET line == nth_or_empty(lines(file[1]),
                                  saturating_sub(self.location.start.line, 1))
             start_column == saturating_sub(self.location.start.column, 1)
             diff == Len(line) - start_column
         IN  IF diff < 0 /\ overflow_checks
             THEN Outcome("panic_overflow", <<>>, <<Locals(line, <<>>)>>)
             ELSE FmtFrom(self, styling, line, start_column,
                          diff % UsizeModulus, overflow_checks)

Panics == {"panic_io", "panic_overflow", "panic_slice", "panic_todo"}

----------------------------------------------------------------------------
(* Inputs. *)

FileBytes == {"a", "\n"}

\* a file whose third line is "let xx = 1"
ExampleFile ==
    <<"a", "\n", "a", "\n", "l", "e", "t", " ", "x", "x", " ", "=", " ", "1">>

Files == SeqsUpTo(FileBytes, MaxFileLen) \cup {ExampleFile}
Reads == {<<>>} \cup {<<contents>> : contents \in Files}

Filenames == {<<Normal("file.x")>>, <<RootDir, Normal("src"), Normal("file.x")>>}

\* the span "xx =" of the third line of ExampleFile
ExampleLocation == Location(<<Normal("file.x")>>, 3, 5, 4)

Locations ==
    {Location(f, l, c, n) :
        f \in Filenames, l \in 1 .. MaxLine, c \in 1 .. MaxColumn,
        n \in 0 .. MaxLength}
        \cup {ExampleLocation}

TInt == [name |-> "Int"]
TBool == [name |-> "Bool"]

\* one error of each kind, a warning and a note
MessageTypes ==
    {Error(mismatched_parameters(TInt, TBool)),
     Error(ref_required_for_assignment(TBool)),
     Error(cannot_assign_to_ref(TInt, TBool)),
     Error(value_is_not_a_function(TInt)),
     Error(InvalidNumberOfParameters(
               [param |-> TInt, ret |-> TBool], 1, 2)),
     Warning(Todo),
     Note(Todo)}

----------------------------------------------------------------------------
(* Actions. *)

\* CompilationMessage::new(location, message)
New(location, msg) ==
    /\ message = <<>>
    /\ message' = <<new(location, msg)>>
    /\ new_args' = <<[location |-> location, message |-> msg]>>
    /\ UNCHANGED <<fs, status, out, env, locals, errorVars, pathVars>>

\* format!("{}", message.display(cache, styling)); a panic ends the process
Render(styling, overflow_checks) ==
    /\ message /= <<>>
    /\ status \notin Panics
    /\ \E r \in {DisplayableMessage_fmt(message[1], styling, fs, overflow_checks)} :
           /\ status' = r.status
           /\ out' = r.out
           /\ locals' = r.locals
    /\ env' = <<[styling |-> styling, overflow_checks |-> overflow_checks]>>
    /\ UNCHANGED <<fs, message, new_args, errorVars, pathVars>>

NewStep == \E location \in Locations, msg \in MessageTypes : New(location, msg)

RenderStep ==
    \E styling \in Stylings, overflow_checks \in BOOLEAN :
        Render(styling, overflow_checks)

DisplayErrorStep == \E styling \in Stylings : DisplayError(styling)

RenderIdle ==
    /\ fs = <<>>
    /\ message = <<>>
    /\ new_args = <<>>
    /\ status = "idle"
    /\ out = <<>>
    /\ env = <<>>
    /\ locals = <<>>

ErrorIdle ==
    /\ err = <<>>
    /\ body = <<>>
    /\ body_styling = <<>>

PathIdle ==
    /\ path = <<>>
    /\ path_out = <<>>

\* the renderer, over every state of the source file
Init ==
    /\ fs \in Reads
    /\ message = <<>>
    /\ new_args = <<>>
    /\ status = "idle"
    /\ out = <<>>
    /\ env = <<>>
    /\ locals = <<>>
    /\ ErrorIdle
    /\ PathIdle
Next == NewStep \/ RenderStep
Spec == Init /\ [][Next]_vars

\* the error bodies, over every error
InitError ==
    /\ RenderIdle
    /\ PathIdle
    /\ err \in {<<e>> : e \in CompilationErrors}
    /\ body = <<>>
    /\ body_styling = <<>>
NextError == DisplayErrorStep
SpecError == InitError /\ [][NextError]_vars

\* the path formatter, over every path
InitPath ==
    /\ RenderIdle
    /\ ErrorIdle
    /\ path \in Paths
    /\ path_out = <<>>
NextPath == FormatPath
SpecPath == InitPath /\ [][NextPath]_vars

----------------------------------------------------------------------------
(* Properties. *)

Rendered == status /= "idle"
Msg == message[1]
Tag == Msg.message.tag
Column == Msg.location.start.column
Line == locals[1].line
Range == locals[1].range
Styling == env[1].styling

\* C1: whenever render has read the file, for every column >= 1 and length
\* >= 0 the range computation neither underflows nor slices past the end of
\* the line, and the range [lo, hi) it computes has lo = column - 1 and
\* 0 <= lo <= hi <= line length.
C1_RangeWithinLine ==
    (Rendered /\ fs /= <<>>) =>
        /\ status \notin {"panic_overflow", "panic_slice"}
        /\ Range /= <<>>
        /\ Range[1] = Column - 1
        /\ 0 <= Range[1]
        /\ Range[1] <= Range[3]
        /\ Range[3] <= Len(Line)

\* C2: when the file has fewer lines than start.line, render of an error
\* uses the empty line and completes, whatever the column and the length,
\* and the snippet line it writes is empty.
C2_MissingLineCompletes ==
    (/\ Rendered
     /\ fs /= <<>>
     /\ Tag = "Error"
     /\ Len(lines(fs[1])) < Msg.location.start.line) =>
        /\ Line = <<>>
        /\ status = "completed"
        /\ Flatten(out[3]) = "\n"

SeverityWord(tag) ==
    CASE tag = "Error" -> "error"
      [] tag = "Warning" -> "warning"
      [] tag = "Note" -> "note"

HeaderStyle(styling, tag) ==
    CASE tag = "Error" -> styling.header_error
      [] tag = "Warning" -> styling.header_warning
      [] tag = "Note" -> styling.header_note

\* C3: the header written by render is the location as "path:line:column",
\* then " | ", then the severity word of the message's variant followed by
\* ":", in the header style of that variant.
C3_HeaderSeverityWord ==
    (Rendered /\ Len(out) >= 1) =>
        /\ out[1][1] = Piece(Styling.location, OwnedLocation_fmt(Msg.location))
        /\ out[1][2] = Plain(" | ")
        /\ out[1][3] = Piece(HeaderStyle(Styling, Tag), SeverityWord(Tag) \o ":")

\* C4: a completed render of an error wrote a header line, a body line, a
\* snippet line and at most one marker line, each write being exactly one
\* line: one newline, at its end.
C4_ErrorOutputShape ==
    (status = "completed" /\ Tag = "Error") =>
        /\ Len(out) \in {3, 4}
        /\ \A i \in 1 .. Len(out) :
              /\ Newlines(out[i]) = 1
              /\ out[i][Len(out[i])] = NL

\* the templates as the specification words them
SpecTemplate(error) ==
    CASE error.kind = "MismatchedParameters" ->
            "Mismatched parameters: expected " \o display(error.expected)
                \o ", got " \o display(error.got)
      [] error.kind = "RefRequiredForAssignment" ->
            "Expression of type " \o display(error.got)
                \o " must be a mutable-reference type to be assigned to"
      [] error.kind = "CannotAssignToRef" ->
            "Cannot assign expression of type " \o display(error.got)
                \o " to a reference of type " \o display(error.expected)
      [] error.kind = "ValueIsNotAFunction" ->
            "Value being called is not a function, it is a "
                \o display(error.got)
      [] error.kind = "InvalidNumberOfParameters" ->
            "Function " \o display_function(error.function)
                \o " declared to take " \o ToString(error.expected)
                \o " parameter" \o (IF error.expected >= 2 THEN "s" ELSE "")
                \o ", but " \o ToString(error.got) \o " were supplied"

\* the same templates with the two reference wordings of the source
AmendedTemplate(error) ==
    CASE error.kind = "RefRequiredForAssignment" ->
            "Expression of type " \o display(error.got)
                \o " must be a 'ref a' type to be assigned to"
      [] error.kind = "CannotAssignToRef" ->
            "Cannot assign expression of type " \o display(error.got)
                \o " to a ref of type " \o display(error.expected)
      [] OTHER -> SpecTemplate(error)

\* C5 as stated: under no_color the body of each error kind is the
\* specification's template, word for word, on one line.
C5_SpecTemplates ==
    body_styling = <<no_color>> =>
        Flatten(body) = SpecTemplate(err[1]) \o "\n"

\* C5 amended: under no_color the body of each error kind is the
\* specification's template, word for word, on one line, except that
\* RefRequiredForAssignment reads "must be a 'ref a' type" (quoted with
\* backquotes) and CannotAssignToRef reads "to a ref of type".
C5_BodyTemplates ==
    body_styling = <<no_color>> =>
        Flatten(body) = AmendedTemplate(err[1]) \o "\n"

C5_Witness ==
    /\ body_styling = <<no_color>>
    /\ err[1] = cannot_assign_to_ref(TInt, TBool)
    /\ Flatten(body) = "Cannot assign expression of type Bool to a ref of type Int\n"

\* the components of a path that are not a prefix
RECURSIVE WithoutPrefix(_)
WithoutPrefix(components) ==
    IF components = <<>> THEN <<>>
    ELSE IF Head(components).kind = "Prefix"
         THEN WithoutPrefix(Tail(components))
         ELSE <<Head(components)>> \o WithoutPrefix(Tail(components))

\* C6: a formatted path shows a prefix as nothing at all, so it reads as
\* the same path without its prefix; [prefix, root, "a"] reads "/a" and
\* [root, "a", "..", "b"] reads "/a/../b".
C6_PrefixRendersAsNothing ==
    path_out /= <<>> =>
        /\ path_out[1] = OsAgnosticPath_fmt(WithoutPrefix(path))
        /\ path = <<Prefix, RootDir, Normal("a")>> => path_out[1] = "/a"
        /\ path = <<RootDir, Normal("a"), ParentDir, Normal("b")>> =>
              path_out[1] = "/a/../b"

\* C7: in a completed render a marker line is written if and only if
\* styling.underline holds or the highlighted range is empty, and it is lo
\* spaces followed by hi - lo carets, where lo = column - 1 and
\* hi = lo + min(length, bytes remaining in the line).
C7_MarkerLine ==
    status = "completed" =>
        LET lo == Column - 1
            hi == lo + min(length(Msg.location), Len(Line) - lo)
        IN  /\ Len(out) = 4 <=> (Styling.underline \/ hi = lo)
            /\ Len(out) = 4 =>
                  out[4] = <<Plain(repeat(" ", lo) \o repeat("^", hi - lo)), NL>>

C7_Witness ==
    /\ status = "completed"
    /\ fs = <<ExampleFile>>
    /\ Msg.location = as_owned(ExampleLocation)
    /\ Str(Line) = "let xx = 1"
    /\ Range = <<4, 4, 8>>
    /\ Len(out) = 4
    /\ Flatten(out[4]) = "    ^^^^\n"

\* C8 as stated: rendering a warning or a note always aborts with the
\* not-implemented signal.
C8_AlwaysNotImplemented ==
    (Rendered /\ Tag \in {"Warning", "Note"}) => status = "panic_todo"

\* C8 amended: rendering a warning or a note never completes and writes no
\* body, snippet or marker; it aborts with the not-implemented signal
\* unless the render aborted before reaching the payload, on reading the
\* file or on the overflow of line.len() - start_column.
C8_NeverCompletes ==
    (Rendered /\ Tag \in {"Warning", "Note"}) =>
        /\ status /= "completed"
        /\ Len(out) <= 1
        /\ \/ status = "panic_todo"
           \/ status = "panic_io" /\ fs = <<>>
           \/ /\ status = "panic_overflow"
              /\ env[1].overflow_checks
              /\ Column - 1 > Len(Line)

C8_Witness ==
    /\ status = "panic_todo"
    /\ Tag = "Warning"
    /\ fs /= <<>>

\* C9: in the body of InvalidNumberOfParameters the word "parameter" is
\* followed by "s" if and only if expected >= 2, and by nothing otherwise,
\* whatever got is.
C9_Pluralization ==
    (body_styling /= <<>> /\ err[1].kind = "InvalidNumberOfParameters") =>
        /\ body[5] = Plain(" parameter")
        /\ body[7] = Plain(", but ")
        /\ body[6] = Plain("s") <=> err[1].expected >= 2
        /\ body[6] = Plain("") <=> err[1].expected < 2

C9_Witness ==
    /\ body_styling = <<no_color>>
    /\ err[1].kind = "InvalidNumberOfParameters"
    /\ err[1].expected = 0
    /\ err[1].got = 2
    /\ Flatten(body) =
          "Function (Int -> Bool) declared to take 0 parameter, but 2 were supplied\n"

\* C10: is_error() of a constructed message is true if and only if the
\* payload given to new was the Error variant, and no step, a render
\* included, changes the message or its is_error().
C10_IsErrorIffErrorVariant ==
    /\ [](message /= <<>> =>
             (is_error(Msg) <=> new_args[1].message.tag = "Error"))
    /\ [][message /= <<>> =>
             /\ message' /= <<>>
             /\ is_error(message'[1]) = is_error(message[1])]_vars

C10_Witness ==
    /\ status = "completed"
    /\ is_error(Msg)
    /\ new_args[1].message.tag = "Error"

============================================================================
